---- MODULE Spec2Model ----
(***************************************************************************)
(* super-env: encryption of .env files (src/core/encryption.ts) and the    *)
(* command line around it (cli/index.ts).                                  *)
(*                                                                         *)
(* Strings are sequences of Unicode code points, buffers are sequences of  *)
(* bytes (0..255).  UTF-8, base64, PKCS#7 padding, CBC chaining and the    *)
(* record framing "iv:ciphertext" are computed as Node computes them.  The *)
(* block cipher (AES-256) and the key derivation (scrypt) live in OpenSSL, *)
(* outside the repository: they are represented by a keyed permutation of  *)
(* blocks (a Feistel network) and a deterministic hash of the master key,  *)
(* on blocks of BlockLen bytes instead of 16.                              *)
(***************************************************************************)
EXTENDS Integers, Sequences, FiniteSets, TLC

\* ------------------------------------------------------------------ bounds
\* Bytes in a cipher block and in an IV (16 for aes-256-cbc).
BlockLen == 2
\* Longest plaintext, in characters, the cipher specification draws.
MaxLen == 3

\* The calls of createEnv one Env instance may make.
MaxValidations == 2

\* ------------------------------------------------------------ byte helpers
Byte == 0..255

\* The bit of weight w in the exclusive or of a and b.
XorBit(a, b, w) == ((((a \div w) % 2) + ((b \div w) % 2)) % 2) * w

\* Bitwise exclusive or of two bytes.
Xor(a, b) ==
  ((XorBit(a, b, 1) + XorBit(a, b, 2)) + (XorBit(a, b, 4) + XorBit(a, b, 8)))
    + ((XorBit(a, b, 16) + XorBit(a, b, 32))
         + (XorBit(a, b, 64) + XorBit(a, b, 128)))

RECURSIVE XorBlock(_, _)
XorBlock(x, y) ==
  IF x = <<>> THEN <<>>
  ELSE <<Xor(Head(x), Head(y))>> \o XorBlock(Tail(x), Tail(y))

RECURSIVE Repeat(_, _)
Repeat(v, n) == IF n <= 0 THEN <<>> ELSE <<v>> \o Repeat(v, n - 1)

Take(s, n) == SubSeq(s, 1, n)
Drop(s, n) == SubSeq(s, n + 1, Len(s))

\* s.indexOf(c), counted from 1: the first index of s holding c, or 0.
IndexOf(s, c) ==
  LET hits == {i \in 1..Len(s) : s[i] = c}
  IN IF hits = {} THEN 0 ELSE CHOOSE i \in hits : \A j \in hits : i <= j

\* ------------------------------------------------------------------- UTF-8
\* U+FFFD, what a decoder puts in place of an ill-formed sequence.
ReplacementChar == 65533

\* Buffer.from(text, "utf8") of one code point (no lone surrogates).
Utf8Char(cp) ==
  IF cp < 128 THEN <<cp>>
  ELSE IF cp < 2048 THEN <<192 + (cp \div 64), 128 + (cp % 64)>>
  ELSE IF cp < 65536
    THEN <<224 + (cp \div 4096), 128 + ((cp \div 64) % 64), 128 + (cp % 64)>>
  ELSE <<240 + (cp \div 262144), 128 + ((cp \div 4096) % 64),
         128 + ((cp \div 64) % 64), 128 + (cp % 64)>>

RECURSIVE Utf8Encode(_)
Utf8Encode(s) ==
  IF s = <<>> THEN <<>> ELSE Utf8Char(Head(s)) \o Utf8Encode(Tail(s))

\* Continuation bytes a lead byte asks for; -1 for a byte that leads nothing.
Utf8Needed(b) ==
  IF b < 128 THEN 0
  ELSE IF b >= 194 /\ b <= 223 THEN 1
  ELSE IF b >= 224 /\ b <= 239 THEN 2
  ELSE IF b >= 240 /\ b <= 244 THEN 3
  ELSE -1

\* Range of the first continuation byte after lead byte b.
Utf8Lower(b) == IF b = 224 THEN 160 ELSE IF b = 240 THEN 144 ELSE 128
Utf8Upper(b) == IF b = 237 THEN 159 ELSE IF b = 244 THEN 143 ELSE 191

Utf8LeadBits(b) ==
  IF b < 224 THEN b - 192 ELSE IF b < 240 THEN b - 224 ELSE b - 240

RECURSIVE Utf8Cont(_, _, _, _, _)
\* Reads up to need continuation bytes from index i: <<bytes read, value>>.
Utf8Cont(b, i, need, first, acc) ==
  IF need = 0 \/ i > Len(b) THEN <<0, acc>>
  ELSE LET lo == IF first = 0 THEN 128 ELSE Utf8Lower(first)
           hi == IF first = 0 THEN 191 ELSE Utf8Upper(first)
       IN IF b[i] < lo \/ b[i] > hi THEN <<0, acc>>
          ELSE LET r == Utf8Cont(b, i + 1, need - 1, 0, acc * 64 + (b[i] - 128))
               IN <<r[1] + 1, r[2]>>

RECURSIVE Utf8DecodeFrom(_, _)
\* buffer.toString("utf8"): every maximal ill-formed part becomes U+FFFD.
Utf8DecodeFrom(b, i) ==
  IF i > Len(b) THEN <<>>
  ELSE LET need == Utf8Needed(b[i])
       IN IF need = 0 THEN <<b[i]>> \o Utf8DecodeFrom(b, i + 1)
          ELSE IF need = -1 THEN <<ReplacementChar>> \o Utf8DecodeFrom(b, i + 1)
          ELSE LET r == Utf8Cont(b, i + 1, need, b[i], Utf8LeadBits(b[i]))
               IN IF r[1] = need
                    THEN <<r[2]>> \o Utf8DecodeFrom(b, i + 1 + need)
                    ELSE <<ReplacementChar>> \o Utf8DecodeFrom(b, i + 1 + r[1])

Utf8Decode(b) == Utf8DecodeFrom(b, 1)

\* ------------------------------------------------------------------ base64
\* "=", the padding character, and ":", the separator of a record's parts.
PadChar == 61
Colon == 58

\* The character of a 6-bit digit: A-Z, a-z, 0-9, "+", "/".
B64Char(v) ==
  IF v < 26 THEN 65 + v
  ELSE IF v < 52 THEN 71 + v
  ELSE IF v < 62 THEN v - 4
  ELSE IF v = 62 THEN 43 ELSE 47

\* The digit of a character (the URL alphabet's "-" and "_" are read too);
\* -1 for a character that is no digit.
B64Value(c) ==
  IF c >= 65 /\ c <= 90 THEN c - 65
  ELSE IF c >= 97 /\ c <= 122 THEN c - 71
  ELSE IF c >= 48 /\ c <= 57 THEN c + 4
  ELSE IF c = 43 \/ c = 45 THEN 62
  ELSE IF c = 47 \/ c = 95 THEN 63
  ELSE -1

RECURSIVE Base64Encode(_)
\* buffer.toString("base64").
Base64Encode(b) ==
  IF Len(b) = 0 THEN <<>>
  ELSE IF Len(b) = 1
    THEN <<B64Char(b[1] \div 4), B64Char((b[1] % 4) * 16), PadChar, PadChar>>
  ELSE IF Len(b) = 2
    THEN <<B64Char(b[1] \div 4), B64Char(((b[1] % 4) * 16) + (b[2] \div 16)),
           B64Char((b[2] % 16) * 4), PadChar>>
  ELSE <<B64Char(b[1] \div 4), B64Char(((b[1] % 4) * 16) + (b[2] \div 16)),
         B64Char(((b[2] % 16) * 4) + (b[3] \div 64)), B64Char(b[3] % 64)>>
       \o Base64Encode(Drop(b, 3))

IsB64Digit(c) == B64Value(c) >= 0

\* The digit characters of s: the first "=" ends the input and characters
\* that are no digit are skipped.
B64Digits(s) ==
  LET end == IndexOf(s, PadChar)
  IN SelectSeq(IF end = 0 THEN s ELSE Take(s, end - 1), IsB64Digit)

\* The bytes of the groups of four digits; a last group of two or three digits
\* gives one or two bytes, a single digit none.
B64Group(a, b, c, d) ==
  <<(a * 4) + (b \div 16), ((b % 16) * 16) + (c \div 4), ((c % 4) * 64) + d>>

RECURSIVE B64Bytes(_)
B64Bytes(d) ==
  IF Len(d) < 2 THEN <<>>
  ELSE IF Len(d) = 2
    THEN Take(B64Group(B64Value(d[1]), B64Value(d[2]), 0, 0), 1)
  ELSE IF Len(d) = 3
    THEN Take(B64Group(B64Value(d[1]), B64Value(d[2]), B64Value(d[3]), 0), 2)
  ELSE B64Group(B64Value(d[1]), B64Value(d[2]), B64Value(d[3]), B64Value(d[4]))
         \o B64Bytes(Drop(d, 4))

\* Buffer.from(s, "base64"): never throws.
Base64Decode(s) == B64Bytes(B64Digits(s))

\* A base64 string decoder (cipher.update and cipher.final with an output
\* encoding share one): write() encodes whole groups of three bytes and keeps
\* the rest for the next call, end() encodes what is left.
B64Write(kept, chunk) ==
  LET buf == kept \o chunk
      n == (Len(buf) \div 3) * 3
  IN [text |-> Base64Encode(Take(buf, n)), kept |-> Drop(buf, n)]

B64End(kept, chunk) == Base64Encode(kept \o chunk)

\* --------------------------------------------------------- OpenSSL stand-ins
\* The salt scryptSync is given, "salt".
Salt == <<115, 97, 108, 116>>

\* Bytes of a derived key and of a master key (32 for a 16-byte block).
KeyLen == 2 * BlockLen

HashStep(h, x) == ((h * 31) + (x * 7) + (h \div 16) + 1) % 256

RECURSIVE HashBytes(_, _)
\* The bytes of b folded into h, from the first to the last.
HashBytes(h, b) ==
  IF b = <<>> THEN h
  ELSE HashStep(HashBytes(h, Take(b, Len(b) - 1)), b[Len(b)])

RECURSIVE Weighted(_, _)
\* The bytes of b, each weighted by its place and by j, added up.
Weighted(b, j) ==
  IF b = <<>> THEN 0
  ELSE (Head(b) * ((2 * Len(b)) + j)) + Weighted(Tail(b), j)

Mix(v) == ((v * v) + (v \div 16) + (v * 7) + 13) % 256

\* scryptSync(password, salt, keylen): a deterministic function of the
\* password and the salt giving keylen bytes.
RECURSIVE ScryptFrom(_, _, _, _)
ScryptFrom(password, salt, j, keylen) ==
  IF j > keylen THEN <<>>
  ELSE <<Mix(Weighted(password \o salt, j) + (j * 59))>>
       \o ScryptFrom(password, salt, j + 1, keylen)

scryptSync(password, salt, keylen) == ScryptFrom(password, salt, 1, keylen)

RoundF(rest, rk) == ((HashBytes(rk, rest) * 167) + 13) % 256

Rounds == BlockLen + 2

RoundKey(key, r) == (key[((r - 1) % Len(key)) + 1] + (r * 29)) % 256

FeistelRound(blk, rk) ==
  Tail(blk) \o <<Xor(Head(blk), RoundF(Tail(blk), rk))>>

FeistelUnround(blk, rk) ==
  LET rest == Take(blk, Len(blk) - 1)
  IN <<Xor(blk[Len(blk)], RoundF(rest, rk))>> \o rest

RECURSIVE EncryptRounds(_, _, _)
\* blk after rounds 1..r.
EncryptRounds(key, blk, r) ==
  IF r = 0 THEN blk
  ELSE FeistelRound(EncryptRounds(key, blk, r - 1), RoundKey(key, r))

RECURSIVE DecryptRounds(_, _, _)
\* blk with rounds Rounds..r undone.
DecryptRounds(key, blk, r) ==
  IF r > Rounds THEN blk
  ELSE FeistelUnround(DecryptRounds(key, blk, r + 1), RoundKey(key, r))

\* The block cipher: for every key a permutation of the blocks, and its inverse.
AesEncryptBlock(key, blk) == EncryptRounds(key, blk, Rounds)
AesDecryptBlock(key, blk) == DecryptRounds(key, blk, 1)

\* ------------------------------------------------------- aes-256-cbc, PKCS#7
\* Mutant: no padding block for data that already ends on a block boundary.
Pkcs7PadAligned(data) ==
  LET n == (BlockLen - (Len(data) % BlockLen)) % BlockLen IN data \o Repeat(n, n)

Pkcs7Pad(data) ==
  LET n == BlockLen - (Len(data) % BlockLen) IN data \o Repeat(n, n)

RECURSIVE CbcEncrypt(_, _, _)
\* data holds whole blocks; prev is the IV or the previous ciphertext block.
CbcEncrypt(key, prev, data) ==
  IF data = <<>> THEN <<>>
  ELSE LET c == AesEncryptBlock(key, XorBlock(Take(data, BlockLen), prev))
       IN c \o CbcEncrypt(key, c, Drop(data, BlockLen))

RECURSIVE CbcDecryptPropagating(_, _, _)
\* Mutant: a chaining in which a changed block garbles every later block.
CbcDecryptPropagating(key, prev, ct) ==
  IF ct = <<>> THEN <<>>
  ELSE LET c == Take(ct, BlockLen)
           plain == XorBlock(AesDecryptBlock(key, c), prev)
       IN plain \o CbcDecryptPropagating(key, XorBlock(plain, c), Drop(ct, BlockLen))

RECURSIVE CbcDecrypt(_, _, _)
CbcDecrypt(key, prev, ct) ==
  IF ct = <<>> THEN <<>>
  ELSE LET c == Take(ct, BlockLen)
       IN XorBlock(AesDecryptBlock(key, c), prev)
            \o CbcDecrypt(key, c, Drop(ct, BlockLen))

\* What decipher.final() checks of the decrypted blocks: the last byte n is in
\* 1..BlockLen and each of the last n bytes is n.
RECURSIVE PadBytesOk(_, _, _)
PadBytesOk(plain, n, k) ==
  k = 0 \/ (plain[Len(plain) - k + 1] = n /\ PadBytesOk(plain, n, k - 1))

\* Mutant: only the last byte is looked at.
FinalPadOkLastByte(plain) ==
  plain[Len(plain)] >= 1 /\ plain[Len(plain)] <= BlockLen

FinalPadOk(plain) ==
  LET n == plain[Len(plain)]
  IN n >= 1 /\ n <= BlockLen /\ PadBytesOk(plain, n, n)

\* decipher.update(ct) and decipher.final(): the plaintext bytes, or an error
\* (wrong final block length, bad decrypt).
Decipher(key, iv, ct) ==
  IF Len(ct) = 0 \/ Len(ct) % BlockLen # 0
    THEN [ok |-> FALSE, bytes |-> <<>>]
  ELSE LET plain == CbcDecrypt(key, iv, ct)
       IN IF FinalPadOk(plain)
            THEN [ok |-> TRUE, bytes |-> Take(plain, Len(plain) - plain[Len(plain)])]
            ELSE [ok |-> FALSE, bytes |-> <<>>]

\* ----------------------------------------------------- core/encryption.ts
RECURSIVE Split(_, _)
\* text.split(c): the parts between the occurrences of c.
Split(s, c) ==
  LET i == IndexOf(s, c)
  IN IF i = 0 THEN <<s>> ELSE <<Take(s, i - 1)>> \o Split(Drop(s, i), c)

\* cipher.update(text, "utf8", "base64") + cipher.final("base64"): update
\* encrypts the whole blocks of the text, final the padded rest, and the two
\* base64 strings are concatenated.
CipherText(key, iv, data) ==
  LET whole == (Len(data) \div BlockLen) * BlockLen
      updated == CbcEncrypt(key, iv, Take(data, whole))
      prev == IF whole = 0 THEN iv ELSE Drop(updated, whole - BlockLen)
      final == CbcEncrypt(key, prev, Pkcs7Pad(Drop(data, whole)))
      first == B64Write(<<>>, updated)
  IN first.text \o B64End(first.kept, final)

\* Mutant: a constant IV in place of the random one.
encryptStaticIv(text, masterKey, iv) ==
  Base64Encode(Repeat(0, BlockLen)) \o <<Colon>>
    \o CipherText(scryptSync(masterKey, Salt, KeyLen), Repeat(0, BlockLen),
                  Utf8Encode(text))

\* encrypt(text, masterKey), iv being what randomBytes(16) returned.
encrypt(text, masterKey, iv) ==
  Base64Encode(iv) \o <<Colon>>
    \o CipherText(scryptSync(masterKey, Salt, KeyLen), iv, Utf8Encode(text))

\* The outcome of a call: err is "none" or the kind of the error thrown, text
\* the string returned, calls the library calls made, in order.
Returned(text, calls) == [err |-> "none", text |-> text, calls |-> calls]
Thrown(kind, calls) == [err |-> kind, text |-> <<>>, calls |-> calls]

\* Mutant: the key is derived and the cipher set up before the parts are looked at.
decryptUnchecked(encryptedText, masterKey) ==
  LET parts == Split(encryptedText, Colon)
      iv == Base64Decode(parts[1])
      calls == <<"split", "Buffer.from", "scryptSync", "createDecipheriv">>
  IN IF Len(iv) # BlockLen \/ Len(parts) < 2
       THEN Thrown(IF Len(parts) < 2 THEN "MalformedRecordError" ELSE "DecryptionError",
                   calls)
     ELSE LET d == Decipher(scryptSync(masterKey, Salt, KeyLen), iv,
                            Base64Decode(parts[2]))
          IN IF d.ok THEN Returned(Utf8Decode(d.bytes), calls \o <<"update", "final">>)
             ELSE Thrown("DecryptionError", calls \o <<"update", "final">>)

\* decrypt(encryptedText, masterKey).
decrypt(encryptedText, masterKey) ==
  LET parts == Split(encryptedText, Colon)
      ivBase64 == parts[1]
      encrypted == IF Len(parts) >= 2 THEN parts[2] ELSE <<>>
  IN IF ivBase64 = <<>> \/ encrypted = <<>>
       THEN Thrown("MalformedRecordError", <<"split">>)
     ELSE
       LET iv == Base64Decode(ivBase64)
           key == scryptSync(masterKey, Salt, KeyLen)
       IN IF Len(iv) # BlockLen
            THEN Thrown("DecryptionError",
                        <<"split", "Buffer.from", "scryptSync", "createDecipheriv">>)
          ELSE
            LET d == Decipher(key, iv, Base64Decode(encrypted))
                calls == <<"split", "Buffer.from", "scryptSync",
                           "createDecipheriv", "update", "final">>
            IN IF d.ok THEN Returned(Utf8Decode(d.bytes), calls)
               ELSE Thrown("DecryptionError", calls)

\* randomBytes(n): the values the model lets the generator return.
RandomSeeds == {1, 3}
RECURSIVE SeededBytes(_, _, _)
SeededBytes(s, i, n) ==
  IF i > n THEN <<>>
  ELSE <<((s * ((7 * i) + 3)) + (i * i)) % 256>> \o SeededBytes(s, i + 1, n)

randomBytes(n) == {SeededBytes(s, 1, n) : s \in RandomSeeds}

\* generateMasterKey().
generateMasterKey == randomBytes(KeyLen)

\* ------------------------------------------------------------------- state
VARIABLES
  text,       \* the plaintext given to encrypt
  masterKey,  \* the key given to encrypt
  otherKey,   \* a second key
  usedIVs,    \* the IVs randomBytes has returned so far
  records,    \* what the successive calls of encrypt(text, masterKey) returned
  result,     \* the last call of decrypt: its input, its key and its outcome
  fs,         \* the files of the working directory
  call,       \* the last call of a file function: the files before and its outcome
  lastSaved,  \* the key given to the last saveMasterKey, <<>> before the first
  loaded,     \* what the calls of loadMasterKey returned, in order
  made,       \* how the encrypted file came to be: the text and the key it is of
  procs,      \* the runs of the command line: command, position, outcome
  processEnv, \* process.env: the variables that are set and their values
  dotenvFile, \* the .env file createEnv loads, as dotenv parses it
  instance,   \* an Env instance: its schema, its options and its cachedEnv
  envCall     \* the last call of createEnv or of a method of the instance

cipherVars == <<text, masterKey, otherKey, usedIVs, records, result>>
fileVars == <<fs, call, lastSaved, loaded, made>>
envVars == <<processEnv, dotenvFile, instance, envCall>>
vars == <<cipherVars, fileVars, procs, envVars>>

\* ------------------------------------------------------------ the file system
\* The default paths (MASTER_KEY_FILENAME, the defaults of encryptEnvFile and
\* decryptEnvFile) and the path the test decrypts to.
MASTER_KEY_FILENAME == "MASTER_KEY.key"
EnvPath == ".env"
EncPath == ".env.enc"
DecryptedPath == ".env.decrypted"
TempPath == ".env.tmp"
GitignorePath == ".gitignore"
Paths == {MASTER_KEY_FILENAME, EnvPath, EncPath, DecryptedPath, TempPath, GitignorePath}

\* A path holds a file of some bytes, or nothing.
Absent == [exists |-> FALSE, data |-> <<>>]
File(bytes) == [exists |-> TRUE, data |-> bytes]
NoFiles == [p \in Paths |-> Absent]

existsSync(files, path) == files[path].exists
writeFileSync(files, path, bytes) == [files EXCEPT ![path] = File(bytes)]
unlinkSync(files, path) == [files EXCEPT ![path] = Absent]

\* The outcome of a call that works on files: err as for decrypt, value what it
\* returned (a buffer, if any), files the file system it leaves.
Done(value, files) == [err |-> "none", value |-> value, files |-> files]
Fail(kind, files) == [err |-> kind, value |-> <<>>, files |-> files]

\* saveMasterKey(key, filePath).
saveMasterKey(files, key, filePath) == Done(<<>>, writeFileSync(files, filePath, key))

\* Mutant: the key, once loaded, is kept and returned again.
loadMasterKeyCached(files, filePath) ==
  IF loaded # <<>> THEN Done(loaded, files)
  ELSE IF ~existsSync(files, filePath) THEN Fail("KeyNotFoundError", files)
  ELSE Done(files[filePath].data, files)

\* Mutant: a key file of another length than generateMasterKey's is rejected.
loadMasterKeyChecked(files, filePath) ==
  IF ~existsSync(files, filePath) THEN Fail("KeyNotFoundError", files)
  ELSE IF Len(files[filePath].data) # KeyLen THEN Fail("KeyLengthError", files)
  ELSE Done(files[filePath].data, files)

\* loadMasterKey(filePath): "Master key file not found" is KeyNotFoundError.
loadMasterKey(files, filePath) ==
  IF ~existsSync(files, filePath) THEN Fail("KeyNotFoundError", files)
  ELSE Done(files[filePath].data, files)

\* readFileSync(path, "utf8"): ENOENT is FileNotFoundError.
readTextSync(files, path) ==
  IF ~existsSync(files, path) THEN Fail("FileNotFoundError", files)
  ELSE Done(Utf8Decode(files[path].data), files)

\* Mutant: the input file is read before the key is loaded.
encryptEnvFileInputFirst(files, inputFilePath, outputFilePath, keyFilePath, iv) ==
  LET envContent == readTextSync(files, inputFilePath)
      masterKeyRead == loadMasterKey(files, keyFilePath)
  IN IF envContent.err # "none" THEN envContent
     ELSE IF masterKeyRead.err # "none" THEN masterKeyRead
     ELSE Done(<<>>, writeFileSync(files, outputFilePath,
                 Utf8Encode(encrypt(envContent.value, masterKeyRead.value, iv))))

\* encryptEnvFile(inputFilePath, outputFilePath, keyFilePath), iv being what
\* randomBytes(16) returns inside encrypt.
encryptEnvFile(files, inputFilePath, outputFilePath, keyFilePath, iv) ==
  LET masterKeyRead == loadMasterKey(files, keyFilePath)
      envContent == readTextSync(files, inputFilePath)
  IN IF masterKeyRead.err # "none" THEN masterKeyRead
     ELSE IF envContent.err # "none" THEN envContent
     ELSE Done(<<>>, writeFileSync(files, outputFilePath,
                 Utf8Encode(encrypt(envContent.value, masterKeyRead.value, iv))))

\* Mutant: the decrypted text is written without its last character.
decryptEnvFileTrimmed(files, inputFilePath, outputFilePath, keyFilePath) ==
  LET masterKeyRead == loadMasterKey(files, keyFilePath)
      encryptedContent == readTextSync(files, inputFilePath)
  IN IF masterKeyRead.err # "none" THEN masterKeyRead
     ELSE IF encryptedContent.err # "none" THEN encryptedContent
     ELSE LET decrypted == decrypt(encryptedContent.value, masterKeyRead.value)
          IN IF decrypted.err # "none" THEN Fail(decrypted.err, files)
             ELSE Done(<<>>, writeFileSync(files, outputFilePath,
                         Utf8Encode(Take(decrypted.text, Len(decrypted.text) - 1))))

\* Mutant: the output file is opened for writing before the record is decrypted.
decryptEnvFileTruncating(files, inputFilePath, outputFilePath, keyFilePath) ==
  LET masterKeyRead == loadMasterKey(files, keyFilePath)
      encryptedContent == readTextSync(files, inputFilePath)
  IN IF masterKeyRead.err # "none" THEN masterKeyRead
     ELSE IF encryptedContent.err # "none" THEN encryptedContent
     ELSE LET decrypted == decrypt(encryptedContent.value, masterKeyRead.value)
          IN IF decrypted.err # "none"
               THEN Fail(decrypted.err, writeFileSync(files, outputFilePath, <<>>))
             ELSE Done(<<>>, writeFileSync(files, outputFilePath,
                                           Utf8Encode(decrypted.text)))

\* decryptEnvFile(inputFilePath, outputFilePath, keyFilePath).
decryptEnvFile(files, inputFilePath, outputFilePath, keyFilePath) ==
  LET masterKeyRead == loadMasterKey(files, keyFilePath)
      encryptedContent == readTextSync(files, inputFilePath)
  IN IF masterKeyRead.err # "none" THEN masterKeyRead
     ELSE IF encryptedContent.err # "none" THEN encryptedContent
     ELSE LET decrypted == decrypt(encryptedContent.value, masterKeyRead.value)
          IN IF decrypted.err # "none" THEN Fail(decrypted.err, files)
             ELSE Done(<<>>, writeFileSync(files, outputFilePath,
                                           Utf8Encode(decrypted.text)))

\* ------------------------------------------------------- core/gitignore.ts
\* os.EOL on POSIX and the carriage return /\r?\n/ allows before it.
EOL == <<10>>
CarriageReturn == 13

RECURSIVE StripCarriageReturns(_)
\* The parts between line feeds, each part but the last without the carriage
\* return that ended it.
StripCarriageReturns(parts) ==
  IF Len(parts) <= 1 THEN parts
  ELSE LET part == Head(parts)
       IN <<IF part # <<>> /\ part[Len(part)] = CarriageReturn
              THEN Take(part, Len(part) - 1) ELSE part>>
            \o StripCarriageReturns(Tail(parts))

\* content.split(/\r?\n/).
SplitLines(content) == StripCarriageReturns(Split(content, 10))

RECURSIVE Join(_, _)
\* lines.join(sep).
Join(lines, sep) ==
  IF lines = <<>> THEN <<>>
  ELSE IF Len(lines) = 1 THEN lines[1]
  ELSE lines[1] \o sep \o Join(Tail(lines), sep)

RECURSIVE PushMissing(_, _)
\* lines with every entry that is not yet among them pushed onto the end.
PushMissing(lines, entries) ==
  IF entries = <<>> THEN lines
  ELSE IF \E i \in 1..Len(lines) : lines[i] = Head(entries)
    THEN PushMissing(lines, Tail(entries))
  ELSE PushMissing(Append(lines, Head(entries)), Tail(entries))

\* addToGitignore(entries, gitignorePath): returns whether it wrote the file.
addToGitignore(files, entries, gitignorePath) ==
  LET gitignoreContent ==
        IF existsSync(files, gitignorePath)
          THEN Utf8Decode(files[gitignorePath].data) ELSE <<>>
      lines == SplitLines(gitignoreContent)
      pushed == PushMissing(lines, entries)
  IN IF pushed # lines
       THEN Done(TRUE, writeFileSync(files, gitignorePath, Utf8Encode(Join(pushed, EOL))))
     ELSE Done(FALSE, files)

\* createGitignoreIfNotExists(entries, gitignorePath).
createGitignoreIfNotExists(files, entries, gitignorePath) ==
  IF existsSync(files, gitignorePath) THEN addToGitignore(files, entries, gitignorePath)
  ELSE Done(TRUE, writeFileSync(files, gitignorePath, Utf8Encode(Join(entries, EOL))))

\* --------------------------------------------------------------- cli/index.ts
\* The keys of FRAMEWORKS.
FRAMEWORKS == {"nextjs"}

\* "MASTER_KEY.key", the entry init adds to .gitignore.
MasterKeyEntry == <<77, 65, 83, 84, 69, 82, 95, 75, 69, 89, 46, 107, 101, 121>>

\* The sample .env that init writes, cut down to "#" and a newline.
SampleEnv == <<35, 10>>

\* initCommand from "Generate and save master key" on: the key is saved and
\* .gitignore written before FRAMEWORKS[framework] is looked at.
initBody(files, framework, key) ==
  LET saved == saveMasterKey(files, key, MASTER_KEY_FILENAME).files
      ignored ==
        createGitignoreIfNotExists(saved, <<MasterKeyEntry>>, GitignorePath).files
  IN IF framework \notin FRAMEWORKS THEN Fail("TypeError", ignored)
     ELSE IF existsSync(ignored, EnvPath) THEN Done(<<>>, ignored)
     ELSE Done(<<>>, writeFileSync(ignored, EnvPath, Utf8Encode(SampleEnv)))

\* Mutant: the file re-encrypted is encryptEnvFile's default input, .env.
reencryptDefaultInput(files, iv) ==
  encryptEnvFile(files, EnvPath, EncPath, MASTER_KEY_FILENAME, iv)

\* The re-encryption in the editor's exit callback.
reencrypt(files, iv) ==
  encryptEnvFile(files, TempPath, EncPath, MASTER_KEY_FILENAME, iv)

\* A run of the command line.  exit is the exit code, -1 while it runs; raised:
\* an error was thrown; caught: a catch block took it; report: what was printed
\* of it ("message": the "Error: ..." line of a catch block, "warning": a
\* warning, "trace": the runtime's report of an uncaught error); atExit: what
\* .env.tmp was when the editor of an edit session exited.
NotStarted ==
  [cmd |-> "none", pc |-> "idle", buffer |-> <<>>, edited |-> FALSE,
   raced |-> FALSE, code |-> 0, exit |-> -1, raised |-> FALSE, caught |-> FALSE,
   report |-> "none", atExit |-> Absent]

\* The run ends normally.
Finished(proc) == [proc EXCEPT !.pc = "done", !.exit = 0]

\* A catch block of a command: console.error and process.exit(1).
Caught(proc) ==
  [proc EXCEPT !.pc = "done", !.exit = 1, !.raised = TRUE, !.caught = TRUE,
               !.report = "message"]

\* An error no catch block takes (thrown in a callback, or rejecting the
\* promise of initCommand): the runtime prints it and exits with code 1.
Uncaught(proc) ==
  [proc EXCEPT !.pc = "done", !.exit = 1, !.raised = TRUE, !.report = "trace"]

\* ----------------------------------------------------------- core/env.ts
\* The names of the test's variables, "TEST_VAR" and "TEST_NUMBER", and one no
\* schema asks for, "SERVER_TEST".
TEST_VAR == <<84, 69, 83, 84, 95, 86, 65, 82>>
TEST_NUMBER == <<84, 69, 83, 84, 95, 78, 85, 77, 66, 69, 82>>
SERVER_TEST == <<83, 69, 82, 86, 69, 82, 95, 84, 69, 83, 84>>
Names == {TEST_VAR, TEST_NUMBER, SERVER_TEST}

\* A JavaScript value: undefined, a string, a number (NaN among them).
Undefined == [kind |-> "undefined", str |-> <<>>, num |-> 0, nan |-> FALSE]
Str(s) == [kind |-> "string", str |-> s, num |-> 0, nan |-> FALSE]
Num(n) == [kind |-> "number", str |-> <<>>, num |-> n, nan |-> FALSE]
NaN == [kind |-> "number", str |-> <<>>, num |-> 0, nan |-> TRUE]

\* An object with the names set that are not undefined, and {}.
EmptyFields == [n \in Names |-> Undefined]

\* What a schema parses to, or null: an object or a value that is no object.
Null == [type |-> "null", fields |-> EmptyFields, prim |-> Undefined]
Object(fields) == [type |-> "object", fields |-> fields, prim |-> Undefined]
Primitive(v) == [type |-> "primitive", fields |-> EmptyFields, prim |-> v]
EmptyObject == Object(EmptyFields)

\* Whether `if (value)` takes the value for true: every object does, null,
\* undefined, "", 0 and NaN do not.
Truthy(data) ==
  CASE data.type = "object" -> TRUE
    [] data.type = "null" -> FALSE
    [] OTHER ->
         CASE data.prim.kind = "string" -> data.prim.str # <<>>
           [] data.prim.kind = "number" -> ~data.prim.nan /\ data.prim.num # 0
           [] OTHER -> FALSE

RECURSIVE DigitsValue(_, _)
\* The number of the decimal digits s begins with, acc being that of the
\* digits already read.
DigitsValue(s, acc) ==
  IF s = <<>> \/ s[1] < 48 \/ s[1] > 57 THEN acc
  ELSE DigitsValue(Tail(s), (acc * 10) + (s[1] - 48))

\* parseInt(val, 10) of a string without sign or leading space.
ParseInt(s) ==
  IF s = <<>> \/ s[1] < 48 \/ s[1] > 57 THEN NaN ELSE Num(DigitsValue(s, 0))

\* The schemas: each a z.object of which a field is absent ("none"),
\* z.string() ("string") or z.string().transform((val) => parseInt(val, 10))
\* ("parseInt"); pick, if not <<>>, is a transform of the whole object to the
\* parsed value of one field.
SchemaOf(var, number, pick) ==
  [rules |-> [n \in Names |-> IF n = TEST_VAR THEN var
                              ELSE IF n = TEST_NUMBER THEN number ELSE "none"],
   pick |-> pick]

Schemas ==
  {SchemaOf("string", "parseInt", <<>>),
   SchemaOf("string", "none", <<>>),
   SchemaOf("none", "parseInt", TEST_NUMBER)}

\* schema.safeParse(env): every field of the schema must be a string of env;
\* the data hold the fields of the schema only, each as its rule leaves it.
SafeParse(schema, env) ==
  LET asked == {n \in Names : schema.rules[n] # "none"}
      fields == [n \in Names |->
                   IF n \notin asked \/ env[n].kind # "string" THEN Undefined
                   ELSE IF schema.rules[n] = "parseInt" THEN ParseInt(env[n].str)
                   ELSE env[n]]
  IN [success |-> \A n \in asked : env[n].kind = "string",
      data |-> IF schema.pick = <<>> THEN Object(fields)
               ELSE Primitive(fields[schema.pick])]

\* EnvOptions as they are given: each option true, false or not set.
Given == {"unset", "true", "false"}

\* { ...defaultOptions, ...options }: throwOnValidationFailure is true and
\* skipEnvLoad false unless they are set.
Merged(options) ==
  [throwOnValidationFailure |->
     IF options.throwOnValidationFailure = "unset" THEN TRUE
     ELSE options.throwOnValidationFailure = "true",
   skipEnvLoad |->
     IF options.skipEnvLoad = "unset" THEN FALSE ELSE options.skipEnvLoad = "true"]

\* dotenv.config({ path }): the variables of the file that process.env does
\* not hold are set in process.env.
DotenvConfig(env, file) ==
  [n \in Names |-> IF env[n].kind = "undefined" THEN file.vars[n] ELSE env[n]]

\* What a call returned or threw, and process.env after it.
EnvReturned(data, env) == [err |-> "none", data |-> data, env |-> env]
EnvThrown(kind, env) == [err |-> kind, data |-> Null, env |-> env]

\* Mutant: a failed validation that does not throw returns the fields that
\* are valid.
createEnvPartial(schema, options, env, file) ==
  LET mergedOptions == Merged(options)
      loadedEnv == IF ~mergedOptions.skipEnvLoad /\ file.exists
                     THEN DotenvConfig(env, file) ELSE env
      parsed == SafeParse(schema, loadedEnv)
  IN IF ~parsed.success
       THEN IF mergedOptions.throwOnValidationFailure
              THEN EnvThrown("Environment variables validation failed", loadedEnv)
            ELSE EnvReturned(parsed.data, loadedEnv)
     ELSE EnvReturned(parsed.data, loadedEnv)

\* createEnv(schema, options), env being process.env and file the .env file.
createEnv(schema, options, env, file) ==
  LET mergedOptions == Merged(options)
      loadedEnv == IF ~mergedOptions.skipEnvLoad /\ file.exists
                     THEN DotenvConfig(env, file) ELSE env
      parsed == SafeParse(schema, loadedEnv)
  IN IF ~parsed.success
       THEN IF mergedOptions.throwOnValidationFailure
              THEN EnvThrown("Environment variables validation failed", loadedEnv)
            ELSE EnvReturned(EmptyObject, loadedEnv)
     ELSE EnvReturned(parsed.data, loadedEnv)

\* key.startsWith(prefix).
StartsWith(str, prefix) ==
  Len(prefix) <= Len(str) /\ Take(str, Len(prefix)) = prefix

\* filterClientEnv(env, prefix): Object.entries of a value that is no object
\* are none.
filterClientEnv(data, prefix) ==
  Object([n \in Names |->
            IF data.type = "object" /\ StartsWith(n, prefix)
              THEN data.fields[n] ELSE Undefined])

\* new Env(schema, options): validations counts the calls of createEnv and
\* returned tells that a get() has returned.
NewEnv(schema, options) ==
  [schema |-> schema, options |-> options, cachedEnv |-> Null,
   validations |-> 0, returned |-> FALSE, first |-> Null]

\* Env.get(): the outcome, the instance after it, and whether createEnv ran.
EnvGet(inst, env, file) ==
  IF Truthy(inst.cachedEnv)
    THEN [out |-> EnvReturned(inst.cachedEnv, env), inst |-> inst, validated |-> FALSE]
  ELSE LET created == createEnv(inst.schema, inst.options, env, file)
       IN [out |-> created,
           inst |-> [inst EXCEPT
                       !.cachedEnv = IF created.err = "none" THEN created.data ELSE @,
                       !.validations = @ + 1],
           validated |-> TRUE]

\* Env.getValue(key): this.get()[key].
EnvGetValue(inst, env, file, key) ==
  LET got == EnvGet(inst, env, file)
  IN IF got.out.err # "none" THEN got
     ELSE [got EXCEPT
             !.out.data = IF got.out.data.type = "object"
                            THEN Primitive(got.out.data.fields[key])
                          ELSE Primitive(Undefined)]

\* Env.getClientEnv(prefix).
EnvGetClientEnv(inst, env, file, prefix) ==
  LET got == EnvGet(inst, env, file)
  IN IF got.out.err # "none" THEN got
     ELSE [got EXCEPT !.out.data = filterClientEnv(got.out.data, prefix)]

\* No file, no variable, no call.
NoDotenv == [exists |-> FALSE, vars |-> EmptyFields]
NoOptions == [throwOnValidationFailure |-> "unset", skipEnvLoad |-> "unset"]
NoEnvCall ==
  [op |-> "none", env |-> EmptyFields, file |-> NoDotenv, again |-> FALSE,
   validated |-> FALSE, out |-> EnvReturned(Null, EmptyFields)]

EnvIdle ==
  /\ processEnv = EmptyFields
  /\ dotenvFile = NoDotenv
  /\ instance = NewEnv(SchemaOf("none", "none", <<>>), NoOptions)
  /\ envCall = NoEnvCall

\* --------------------------------------------- the cipher, called directly
\* Characters of the plaintexts: "a", e-acute (two bytes), U+FFFD (three).
TextChars == {97, 233, ReplacementChar}

RECURSIVE Strings(_, _)
Strings(chars, n) ==
  IF n = 0 THEN {<<>>}
  ELSE LET shorter == Strings(chars, n - 1)
       IN shorter \cup {Append(s, c) : s \in {t \in shorter : Len(t) = n - 1},
                                      c \in chars}

Texts == Strings(TextChars, MaxLen)

\* Records without a colon: "", "not-a-valid-record" cut short, base64 only.
NoColonRecords == {<<>>, <<110, 111, 116, 45, 97>>, Base64Encode(<<1, 2, 3>>)}

\* What a changed character of the ciphertext is changed by.
TamperDeltas == {1, 32}

NoResult ==
  [op |-> "none", input |-> <<>>, key |-> <<>>, out |-> Returned(<<>>, <<>>)]

\* No file function has been called and the directory is empty.
NoMade == [valid |-> FALSE, content |-> <<>>, key |-> <<>>]
NoCall ==
  [op |-> "none", input |-> EnvPath, pre |-> NoFiles, out |-> Done(<<>>, NoFiles),
   saved |-> <<>>, made |-> NoMade]

Procs == {1, 2}

CliIdle == procs = [p \in Procs |-> NotStarted]

FilesIdle ==
  /\ fs = NoFiles
  /\ call = NoCall
  /\ lastSaved = <<>>
  /\ loaded = <<>>
  /\ made = NoMade

CipherIdle ==
  /\ text = <<>>
  /\ masterKey = <<>>
  /\ otherKey = <<>>
  /\ usedIVs = {}
  /\ records = <<>>
  /\ result = NoResult

CipherInit ==
  /\ text \in Texts
  /\ masterKey \in generateMasterKey
  /\ otherKey \in generateMasterKey
  /\ usedIVs = {}
  /\ records = <<>>
  /\ result = NoResult
  /\ FilesIdle
  /\ CliIdle
  /\ EnvIdle

\* encrypt(text, masterKey); the generator never returns an IV twice.
Encrypt ==
  /\ result.op = "none"
  /\ Len(records) < 2
  /\ \E iv \in randomBytes(BlockLen) \ usedIVs :
       /\ usedIVs' = usedIVs \cup {iv}
       /\ records' = Append(records, encrypt(text, masterKey, iv))
  /\ UNCHANGED <<envVars, text, masterKey, otherKey, result, fileVars, procs>>

Called(op, input, key) ==
  /\ result.op = "none"
  /\ result' = [op |-> op, input |-> input, key |-> key, out |-> decrypt(input, key)]
  /\ UNCHANGED <<envVars, text, masterKey, otherKey, usedIVs, records, fileVars, procs>>

\* decrypt(record, masterKey) of a record encrypt returned.
Decrypt == \E i \in 1..Len(records) : Called("decrypt", records[i], masterKey)

\* decrypt(record, otherKey), otherKey not being the key of the record.
DecryptWrongKey ==
  /\ otherKey # masterKey
  /\ \E i \in 1..Len(records) : Called("wrongKey", records[i], otherKey)

\* The record with the character at p changed to another base64 character.
Tampered(record, p, d) ==
  Take(record, p - 1)
    \o <<IF record[p] = PadChar THEN B64Char(d)
         ELSE B64Char((B64Value(record[p]) + d) % 64)>>
    \o Drop(record, p)

\* decrypt of the first record with one character of its ciphertext changed.
DecryptTampered ==
  /\ Len(records) >= 1
  /\ \E p \in (IndexOf(records[1], Colon) + 1)..Len(records[1]) :
       \E d \in TamperDeltas :
         Called("tamper", Tampered(records[1], p, d), masterKey)

\* decrypt of a record that holds no colon.
DecryptMalformed ==
  \E r \in NoColonRecords : \E k \in {masterKey, otherKey} :
    Called("malformed", r, k)

CipherNext ==
  \/ Encrypt
  \/ Decrypt
  \/ DecryptWrongKey
  \/ DecryptTampered
  \/ DecryptMalformed

SpecCipher == CipherInit /\ [][CipherNext]_vars

\* ------------------------------------ the file functions, called directly
\* The texts written to .env: "A=1" and "B=" e-acute, each with its newline.
EnvTexts == {<<65, 61, 49, 10>>, <<66, 61, 233, 10>>}

FilesInit == CipherIdle /\ FilesIdle /\ CliIdle /\ EnvIdle

\* One call: the files before it, its outcome, and what was known of the key
\* file and of the encrypted file when it was made.
CallOf(op, input, out) ==
  [op |-> op, input |-> input, pre |-> fs, out |-> out,
   saved |-> lastSaved, made |-> made]

\* saveMasterKey(generateMasterKey(), MASTER_KEY_FILENAME).
SaveKey ==
  \E key \in generateMasterKey :
    LET out == saveMasterKey(fs, key, MASTER_KEY_FILENAME)
    IN /\ fs' = out.files
       /\ call' = CallOf("saveMasterKey", MASTER_KEY_FILENAME, out)
       /\ lastSaved' = key
       /\ UNCHANGED <<envVars, loaded, made, cipherVars, procs>>

\* loadMasterKey(MASTER_KEY_FILENAME); loaded keeps what the first call returned.
LoadKey ==
  LET out == loadMasterKey(fs, MASTER_KEY_FILENAME)
  IN /\ call' = CallOf("loadMasterKey", MASTER_KEY_FILENAME, out)
     /\ loaded' = IF loaded = <<>> /\ out.err = "none" THEN out.value ELSE loaded
     /\ UNCHANGED <<envVars, fs, lastSaved, made, cipherVars, procs>>

\* The caller writes a text to .env.
WriteEnv ==
  \E t \in EnvTexts :
    /\ fs' = writeFileSync(fs, EnvPath, Utf8Encode(t))
    /\ call' = CallOf("writeFileSync", EnvPath, Done(<<>>, fs'))
    /\ UNCHANGED <<envVars, lastSaved, loaded, made, cipherVars, procs>>

\* encryptEnvFile(".env", ".env.enc", MASTER_KEY_FILENAME).
EncryptFile ==
  \E iv \in randomBytes(BlockLen) :
    LET out == encryptEnvFile(fs, EnvPath, EncPath, MASTER_KEY_FILENAME, iv)
    IN /\ fs' = out.files
       /\ call' = CallOf("encryptEnvFile", EnvPath, out)
       /\ made' = IF out.err = "none"
                    THEN [valid |-> TRUE, content |-> fs[EnvPath].data,
                          key |-> fs[MASTER_KEY_FILENAME].data]
                    ELSE made
       /\ UNCHANGED <<envVars, lastSaved, loaded, cipherVars, procs>>

\* decryptEnvFile(".env.enc", ".env.decrypted", MASTER_KEY_FILENAME).
DecryptFile ==
  LET out == decryptEnvFile(fs, EncPath, DecryptedPath, MASTER_KEY_FILENAME)
  IN /\ fs' = out.files
     /\ call' = CallOf("decryptEnvFile", EncPath, out)
     /\ UNCHANGED <<envVars, lastSaved, loaded, made, cipherVars, procs>>

\* decryptEnvFile(".env", ".env.decrypted", MASTER_KEY_FILENAME): the input is
\* the plaintext file, which is no record.
DecryptPlain ==
  LET out == decryptEnvFile(fs, EnvPath, DecryptedPath, MASTER_KEY_FILENAME)
  IN /\ fs' = out.files
     /\ call' = CallOf("decryptEnvFile of .env", EnvPath, out)
     /\ UNCHANGED <<envVars, lastSaved, loaded, made, cipherVars, procs>>

\* The caller removes a file (unlinkSync in the tests' cleanup).
Unlink ==
  \E p \in {MASTER_KEY_FILENAME, EnvPath, EncPath, DecryptedPath} :
    /\ existsSync(fs, p)
    /\ fs' = unlinkSync(fs, p)
    /\ call' = CallOf("unlinkSync", p, Done(<<>>, fs'))
    /\ lastSaved' = IF p = MASTER_KEY_FILENAME THEN <<>> ELSE lastSaved
    /\ made' = IF p = EncPath THEN NoMade ELSE made
    /\ UNCHANGED <<envVars, loaded, cipherVars, procs>>

FilesNext ==
  \/ SaveKey
  \/ LoadKey
  \/ WriteEnv
  \/ EncryptFile
  \/ DecryptFile
  \/ DecryptPlain
  \/ Unlink

SpecFiles == FilesInit /\ [][FilesNext]_vars

\* ------------------------------------------------------- the command line
\* The text of .env in a project that is set up: "A=1" and a newline.
InitialEnv == <<65, 61, 49, 10>>

\* A project after init and encrypt, and a fresh clone of it: the encrypted
\* file and a .gitignore of another origin ("a", CR, LF), no key.
ProjectDir(key, iv) ==
  [p \in Paths |->
     IF p = MASTER_KEY_FILENAME THEN File(key)
     ELSE IF p = EnvPath THEN File(Utf8Encode(InitialEnv))
     ELSE IF p = EncPath THEN File(Utf8Encode(encrypt(InitialEnv, key, iv)))
     ELSE IF p = GitignorePath THEN File(Utf8Encode(MasterKeyEntry))
     ELSE Absent]

CloneDir(key, iv) ==
  [p \in Paths |->
     IF p = EncPath THEN File(Utf8Encode(encrypt(InitialEnv, key, iv)))
     ELSE IF p = GitignorePath THEN File(<<97, CarriageReturn, 10>>)
     ELSE Absent]

Directories ==
  {NoFiles}
    \cup {ProjectDir(key, iv) : key \in generateMasterKey, iv \in randomBytes(BlockLen)}
    \cup {CloneDir(key, iv) : key \in generateMasterKey, iv \in randomBytes(BlockLen)}

CliInit ==
  /\ CipherIdle
  /\ CliIdle
  /\ EnvIdle
  /\ fs \in Directories
  /\ call = NoCall
  /\ lastSaved = <<>>
  /\ loaded = <<>>
  /\ made = NoMade

\* What the user of session p types into the editor.
Mark(p) == <<48 + p>>

\* The positions of an edit session that has decrypted the file and not yet
\* re-encrypted it.
OpenSession == {"spawned", "editing", "exited"}

Started(p, cmd) == [procs[p] EXCEPT !.cmd = cmd]

\* initCommand(options): without a framework option it waits for the prompt.
InitCommand(p) ==
  /\ procs[p].pc = "idle"
  /\ \E framework \in {"", "nextjs", "remix"} :
       IF framework = ""
         THEN /\ procs' = [procs EXCEPT ![p] = [Started(p, "init") EXCEPT !.pc = "prompt"]]
              /\ UNCHANGED fs
       ELSE \E key \in generateMasterKey :
              LET out == initBody(fs, framework, key)
              IN /\ fs' = out.files
                 /\ procs' = [procs EXCEPT ![p] =
                                IF out.err = "none" THEN Finished(Started(p, "init"))
                                ELSE Uncaught(Started(p, "init"))]
  /\ UNCHANGED <<envVars, call, lastSaved, loaded, made, cipherVars>>

\* inquirer.prompt settles: with the one choice there is, or with an error.
InitPrompt(p) ==
  /\ procs[p].pc = "prompt"
  /\ \/ \E key \in generateMasterKey :
          LET out == initBody(fs, "nextjs", key)
          IN /\ fs' = out.files
             /\ procs' = [procs EXCEPT ![p] = Finished(procs[p])]
     \/ /\ procs' = [procs EXCEPT ![p] = Uncaught(procs[p])]
        /\ UNCHANGED fs
  /\ UNCHANGED <<envVars, call, lastSaved, loaded, made, cipherVars>>

\* encryptCommand(), with the default paths.
EncryptCommand(p) ==
  /\ procs[p].pc = "idle"
  /\ \E iv \in randomBytes(BlockLen) :
       LET out == encryptEnvFile(fs, EnvPath, EncPath, MASTER_KEY_FILENAME, iv)
       IN /\ fs' = out.files
          /\ call' = CallOf("encryptEnvFile", EnvPath, out)
          /\ procs' = [procs EXCEPT ![p] =
                         IF out.err = "none" THEN Finished(Started(p, "encrypt"))
                         ELSE Caught(Started(p, "encrypt"))]
  /\ UNCHANGED <<envVars, lastSaved, loaded, made, cipherVars>>

\* decryptCommand(), with the default paths.
DecryptCommand(p) ==
  /\ procs[p].pc = "idle"
  /\ LET out == decryptEnvFile(fs, EncPath, EnvPath, MASTER_KEY_FILENAME)
     IN /\ fs' = out.files
        /\ call' = CallOf("decryptEnvFile", EncPath, out)
        /\ procs' = [procs EXCEPT ![p] =
                       IF out.err = "none" THEN Finished(Started(p, "decrypt"))
                       ELSE Caught(Started(p, "decrypt"))]
  /\ UNCHANGED <<envVars, lastSaved, loaded, made, cipherVars>>

\* editCommand() up to spawn: decrypt to .env.tmp and start the editor.
EditCommand(p) ==
  /\ procs[p].pc = "idle"
  /\ LET out == decryptEnvFile(fs, EncPath, TempPath, MASTER_KEY_FILENAME)
     IN /\ fs' = out.files
        /\ call' = CallOf("decryptEnvFile", EncPath, out)
        /\ procs' = [procs EXCEPT ![p] =
                       IF out.err = "none"
                         THEN [Started(p, "edit") EXCEPT
                                 !.pc = "spawned",
                                 !.raced = \E q \in Procs \ {p} :
                                             procs[q].pc \in OpenSession]
                       ELSE Caught(Started(p, "edit"))]
  /\ UNCHANGED <<envVars, lastSaved, loaded, made, cipherVars>>

\* The editor reads .env.tmp into its buffer.
EditorLoad(p) ==
  /\ procs[p].pc = "spawned"
  /\ procs' = [procs EXCEPT ![p].pc = "editing", ![p].buffer = fs[TempPath].data]
  /\ UNCHANGED <<envVars, fileVars, cipherVars>>

\* Mutant: every save of the editor is followed at once by the re-encryption.
EditorSaveReencrypting(p) ==
  /\ procs[p].pc = "editing"
  /\ ~procs[p].edited
  /\ \E iv \in randomBytes(BlockLen) :
       fs' = reencrypt(writeFileSync(fs, TempPath, procs[p].buffer \o Mark(p)), iv).files
  /\ procs' = [procs EXCEPT ![p].edited = TRUE, ![p].buffer = @ \o Mark(p)]
  /\ UNCHANGED <<envVars, call, lastSaved, loaded, made, cipherVars>>

\* The user changes the buffer and the editor writes it to .env.tmp.
EditorSave(p) ==
  /\ procs[p].pc = "editing"
  /\ ~procs[p].edited
  /\ fs' = writeFileSync(fs, TempPath, procs[p].buffer \o Mark(p))
  /\ procs' = [procs EXCEPT ![p].edited = TRUE, ![p].buffer = @ \o Mark(p)]
  /\ UNCHANGED <<envVars, call, lastSaved, loaded, made, cipherVars>>

\* The editor (or the shell that could not start it) exits with a code.
EditorExit(p) ==
  /\ procs[p].pc \in {"spawned", "editing"}
  /\ \E code \in {0, 1} :
       procs' = [procs EXCEPT ![p].pc = "exited", ![p].code = code,
                              ![p].atExit = fs[TempPath]]
  /\ UNCHANGED <<envVars, fileVars, cipherVars>>

\* The exit callback up to encryptEnvFile: a warning for a code other than 0,
\* then the re-encryption, whose error nothing catches.
EditReencrypt(p) ==
  /\ procs[p].pc = "exited"
  /\ \E iv \in randomBytes(BlockLen) :
       LET out == reencrypt(fs, iv)
           warned == [procs[p] EXCEPT
                        !.report = IF procs[p].code # 0 THEN "warning" ELSE "none"]
       IN /\ fs' = out.files
          /\ call' = CallOf("encryptEnvFile", TempPath, out)
          /\ procs' = [procs EXCEPT ![p] =
                         IF out.err = "none" THEN [warned EXCEPT !.pc = "unlink"]
                         ELSE Uncaught(warned)]
  /\ UNCHANGED <<envVars, lastSaved, loaded, made, cipherVars>>

\* The rest of the exit callback: unlinkSync(tempPath), whose error is caught
\* and reported as a warning, then the message of success.
EditUnlink(p) ==
  /\ procs[p].pc = "unlink"
  /\ IF existsSync(fs, TempPath)
       THEN /\ fs' = unlinkSync(fs, TempPath)
            /\ procs' = [procs EXCEPT ![p] = Finished(procs[p])]
     ELSE /\ UNCHANGED fs
          /\ procs' = [procs EXCEPT ![p] =
                         [Finished(procs[p]) EXCEPT !.raised = TRUE, !.caught = TRUE,
                                                    !.report = "warning"]]
  /\ UNCHANGED <<envVars, call, lastSaved, loaded, made, cipherVars>>

CliNext ==
  \E p \in Procs :
    \/ InitCommand(p)
    \/ InitPrompt(p)
    \/ EncryptCommand(p)
    \/ DecryptCommand(p)
    \/ EditCommand(p)
    \/ EditorLoad(p)
    \/ EditorSave(p)
    \/ EditorExit(p)
    \/ EditReencrypt(p)
    \/ EditUnlink(p)

SpecCli == CliInit /\ [][CliNext]_vars

\* ------------------------------------------------- one edit session, to its end
\* The session that is followed.
Session == 1

\* While the editor is open the key file is removed from the directory (the
\* session holds no copy of the key: the exit callback loads it again).
RemoveKey ==
  /\ procs[Session].pc \in {"spawned", "editing"}
  /\ existsSync(fs, MASTER_KEY_FILENAME)
  /\ fs' = unlinkSync(fs, MASTER_KEY_FILENAME)
  /\ call' = CallOf("unlinkSync", MASTER_KEY_FILENAME, Done(<<>>, fs'))
  /\ UNCHANGED <<envVars, lastSaved, loaded, made, cipherVars, procs>>

EditNext ==
  \/ EditCommand(Session)
  \/ EditorLoad(Session)
  \/ EditorSave(Session)
  \/ EditorExit(Session)
  \/ RemoveKey
  \/ EditReencrypt(Session)
  \/ EditUnlink(Session)

\* The event loop runs the exit callback once the editor has exited, and the
\* callback runs to its end unless it throws.  EditReencrypt is enabled exactly
\* at "exited" and every step of it leaves that position, so its weak fairness
\* is stated as: the session is not at "exited" for ever.
SpecEdit ==
  /\ CliInit
  /\ [][EditNext]_vars
  /\ []<>(procs[Session].pc # "exited")
  /\ WF_vars(EditUnlink(Session))

\* ------------------------------------------------- frameworks/nextjs/index.ts
\* options.skipIfOutputExists as withSuperEnv is given it: not set, true, false.
SkipOptions == {"unset", "true", "false"}

\* mergedOptions.skipIfOutputExists: defaultWithSuperEnvOptions gives true.
MergedSkip(option) == IF option = "unset" THEN TRUE ELSE option = "true"

\* Mutant: the output is decrypted to whether or not it exists.
withSuperEnvAlways(files, option) ==
  IF ~existsSync(files, EncPath) THEN Done("warned", files)
  ELSE IF ~existsSync(files, MASTER_KEY_FILENAME) THEN Done("warned", files)
  ELSE LET out == decryptEnvFile(files, EncPath, EnvPath, MASTER_KEY_FILENAME)
       IN IF out.err = "none" THEN Done("decrypted", out.files)
          ELSE Done("failed", out.files)

\* withSuperEnv(nextConfig, options) with the default paths; it returns
\* nextConfig whatever happens, and value is what it did: "warned" (a file is
\* missing), "skipped", "decrypted", or "failed" (the error of decryptEnvFile
\* was caught and logged).
withSuperEnv(files, option) ==
  IF ~existsSync(files, EncPath) THEN Done("warned", files)
  ELSE IF ~existsSync(files, MASTER_KEY_FILENAME) THEN Done("warned", files)
  ELSE IF ~(MergedSkip(option) /\ existsSync(files, EnvPath))
    THEN LET out == decryptEnvFile(files, EncPath, EnvPath, MASTER_KEY_FILENAME)
         IN IF out.err = "none" THEN Done("decrypted", out.files)
            ELSE Done("failed", out.files)
  ELSE Done("skipped", files)

\* next.config.js is loaded: withSuperEnv(nextConfig, options).
WithSuperEnv ==
  \E option \in SkipOptions :
    LET out == withSuperEnv(fs, option)
    IN /\ fs' = out.files
       /\ call' = CallOf("withSuperEnv", option, out)
       /\ UNCHANGED <<envVars, lastSaved, loaded, made, cipherVars, procs>>

NextjsNext ==
  \/ SaveKey
  \/ WriteEnv
  \/ EncryptFile
  \/ Unlink
  \/ WithSuperEnv

SpecNextjs == FilesInit /\ [][NextjsNext]_vars

\* ------------------------------------------- createEnv and an Env instance
\* The values the variables take: TEST_VAR "t", TEST_NUMBER "0" and "12"; each
\* may be unset.  SERVER_TEST is "s" throughout.
ValuesOf(n) ==
  IF n = TEST_VAR THEN {Undefined, Str(<<116>>)}
  ELSE IF n = TEST_NUMBER THEN {Undefined, Str(<<48>>), Str(<<49, 50>>)}
  ELSE {Str(<<115>>)}

\* The .env files: none, and one that sets TEST_VAR and TEST_NUMBER.
DotenvFiles ==
  {NoDotenv,
   [exists |-> TRUE, vars |-> [EmptyFields EXCEPT ![TEST_VAR] = Str(<<116>>),
                                               ![TEST_NUMBER] = Str(<<48>>)]]}

\* The options createEnv and new Env are given.
OptionSets ==
  {[throwOnValidationFailure |-> t, skipEnvLoad |-> k] :
     t \in Given, k \in {"unset", "true"}}

\* const env = new Env(schema, options), in a process that has SERVER_TEST set.
EnvInit ==
  /\ CipherIdle
  /\ FilesIdle
  /\ CliIdle
  /\ processEnv = [EmptyFields EXCEPT ![SERVER_TEST] = Str(<<115>>)]
  /\ dotenvFile \in DotenvFiles
  /\ instance \in {NewEnv(schema, options) : schema \in Schemas, options \in OptionSets}
  /\ envCall = NoEnvCall

\* One call: process.env and the file before it, whether a get() of the
\* instance had returned before it, whether it ran createEnv, and its outcome.
EnvCallOf(op, validated, out) ==
  [op |-> op, env |-> processEnv, file |-> dotenvFile, again |-> instance.returned,
   validated |-> validated, out |-> out]

\* process.env[n] = v, or delete process.env[n].
SetVariable ==
  /\ \E n \in Names : \E v \in ValuesOf(n) :
       /\ processEnv[n] # v
       /\ processEnv' = [processEnv EXCEPT ![n] = v]
  /\ UNCHANGED <<dotenvFile, instance, envCall, cipherVars, fileVars, procs>>

\* The .env file is written, or removed.
WriteDotenv ==
  /\ \E file \in DotenvFiles :
       /\ dotenvFile # file
       /\ dotenvFile' = file
  /\ UNCHANGED <<processEnv, instance, envCall, cipherVars, fileVars, procs>>

\* createEnv(schema, options), called directly with the schema and the options
\* the instance was made with.
CreateEnv ==
  /\ LET out == createEnv(instance.schema, instance.options, processEnv, dotenvFile)
     IN /\ processEnv' = out.env
        /\ envCall' = EnvCallOf("createEnv", TRUE, out)
  /\ UNCHANGED <<dotenvFile, instance, cipherVars, fileVars, procs>>

\* The instance after a call of a method: returned and first keep what the
\* first get() that returned gave.
Kept(got) ==
  [got.inst EXCEPT
     !.returned = @ \/ got.out.err = "none",
     !.first = IF ~instance.returned /\ got.out.err = "none"
                 THEN got.inst.cachedEnv ELSE @]

\* env.get().
Get ==
  /\ LET got == EnvGet(instance, processEnv, dotenvFile)
     IN /\ got.validated => instance.validations < MaxValidations
        /\ processEnv' = got.out.env
        /\ instance' = Kept(got)
        /\ envCall' = EnvCallOf("get", got.validated, got.out)
  /\ UNCHANGED <<dotenvFile, cipherVars, fileVars, procs>>

\* env.getValue(key).
GetValue ==
  /\ \E key \in {TEST_VAR, TEST_NUMBER} :
       LET got == EnvGetValue(instance, processEnv, dotenvFile, key)
       IN /\ got.validated => instance.validations < MaxValidations
          /\ processEnv' = got.out.env
          /\ instance' = Kept(got)
          /\ envCall' = EnvCallOf("getValue", got.validated, got.out)
  /\ UNCHANGED <<dotenvFile, cipherVars, fileVars, procs>>

\* env.getClientEnv(prefix), the prefix being "TEST_" or "TEST_V".
GetClientEnv ==
  /\ \E prefix \in {Take(TEST_VAR, 5), Take(TEST_VAR, 6)} :
       LET got == EnvGetClientEnv(instance, processEnv, dotenvFile, prefix)
       IN /\ got.validated => instance.validations < MaxValidations
          /\ processEnv' = got.out.env
          /\ instance' = Kept(got)
          /\ envCall' = EnvCallOf("getClientEnv", got.validated, got.out)
  /\ UNCHANGED <<dotenvFile, cipherVars, fileVars, procs>>

EnvNext ==
  \/ SetVariable
  \/ WriteDotenv
  \/ CreateEnv
  \/ Get
  \/ GetValue
  \/ GetClientEnv

SpecEnv == EnvInit /\ [][EnvNext]_vars

\* ------------------------------------------------- records that are misframed
\* What a record encrypt returned is made into: a part emptied, a part or an
\* empty part added after a second colon, a line feed added at the end or a
\* space put before it (characters that are no base64), the first character
\* of a part taken away (a base64 string of a length that is no multiple of 4).
Misframed(record) ==
  LET parts == Split(record, Colon)
      ivBase64 == parts[1]
      encrypted == parts[2]
  IN {ivBase64 \o <<Colon>>,
      <<Colon>> \o encrypted,
      record \o <<Colon>>,
      record \o <<Colon>> \o encrypted,
      record \o <<10>>,
      <<32>> \o record,
      Tail(record),
      ivBase64 \o <<Colon>> \o Tail(encrypted)}

\* decrypt(record, masterKey) of a misframed record.
DecryptMisframed ==
  /\ Len(records) >= 1
  /\ \E r \in Misframed(records[1]) : Called("misframed", r, masterKey)

FramingNext ==
  \/ Encrypt
  \/ Decrypt
  \/ DecryptMisframed

SpecFraming == CipherInit /\ [][FramingNext]_vars

\* ------------------------------------------------- key files of any length
\* The lengths of the key files: none, one byte, generateMasterKey's, one more.
KeyLengths == {0, 1, KeyLen, KeyLen + 1}

KeyFiles == UNION {randomBytes(n) : n \in KeyLengths}

\* The key file holds masterKey, bytes of any of the lengths.
KeyLengthInit ==
  /\ text \in Texts
  /\ masterKey \in KeyFiles
  /\ otherKey = masterKey
  /\ usedIVs = {}
  /\ records = <<>>
  /\ result = NoResult
  /\ fs = saveMasterKey(NoFiles, masterKey, MASTER_KEY_FILENAME).files
  /\ call = NoCall
  /\ lastSaved = masterKey
  /\ loaded = <<>>
  /\ made = NoMade
  /\ CliIdle
  /\ EnvIdle

\* encrypt(text, key), key being what loadMasterKey has returned.
EncryptLoaded ==
  /\ call.op = "loadMasterKey" /\ call.out.err = "none"
  /\ result.op = "none"
  /\ Len(records) < 2
  /\ \E iv \in randomBytes(BlockLen) \ usedIVs :
       /\ usedIVs' = usedIVs \cup {iv}
       /\ records' = Append(records, encrypt(text, call.out.value, iv))
  /\ UNCHANGED <<envVars, text, masterKey, otherKey, result, fileVars, procs>>

\* decrypt(record, key), key being what loadMasterKey has returned.
DecryptLoaded ==
  /\ call.op = "loadMasterKey" /\ call.out.err = "none"
  /\ \E i \in 1..Len(records) : Called("decrypt", records[i], call.out.value)

KeyLengthNext ==
  \/ LoadKey
  \/ EncryptLoaded
  \/ DecryptLoaded

SpecKeyLength == KeyLengthInit /\ [][KeyLengthNext]_vars

\* ------------------------------------- the .gitignore functions, called directly
\* ".env", an entry beside the key file's.
DotEnvEntry == <<46, 101, 110, 118>>

\* The lists of entries the functions are called with.
EntryLists ==
  {<<>>, <<MasterKeyEntry>>, <<DotEnvEntry>>, <<DotEnvEntry, MasterKeyEntry>>,
   <<MasterKeyEntry, DotEnvEntry>>, <<MasterKeyEntry, MasterKeyEntry>>, <<<<97>>>>}

\* No .gitignore, an empty one, one of another origin ("a", CR, LF), and one
\* that holds the key file's entry.
GitignoreDirs ==
  {NoFiles,
   writeFileSync(NoFiles, GitignorePath, <<>>),
   writeFileSync(NoFiles, GitignorePath, <<97, CarriageReturn, 10>>),
   writeFileSync(NoFiles, GitignorePath, Utf8Encode(MasterKeyEntry))}

GitignoreInit ==
  /\ CipherIdle
  /\ CliIdle
  /\ EnvIdle
  /\ fs \in GitignoreDirs
  /\ call = NoCall
  /\ lastSaved = <<>>
  /\ loaded = <<>>
  /\ made = NoMade

\* createGitignoreIfNotExists(entries), with the default path.
CreateGitignore ==
  \E entries \in EntryLists :
    LET out == createGitignoreIfNotExists(fs, entries, GitignorePath)
    IN /\ fs' = out.files
       /\ call' = CallOf("createGitignoreIfNotExists", GitignorePath, out)
       /\ UNCHANGED <<envVars, lastSaved, loaded, made, cipherVars, procs>>

\* addToGitignore(entries), with the default path.
AddToGitignore ==
  \E entries \in EntryLists :
    LET out == addToGitignore(fs, entries, GitignorePath)
    IN /\ fs' = out.files
       /\ call' = CallOf("addToGitignore", GitignorePath, out)
       /\ UNCHANGED <<envVars, lastSaved, loaded, made, cipherVars, procs>>

\* The caller removes .gitignore.
RemoveGitignore ==
  /\ existsSync(fs, GitignorePath)
  /\ fs' = unlinkSync(fs, GitignorePath)
  /\ call' = CallOf("unlinkSync", GitignorePath, Done(<<>>, fs'))
  /\ UNCHANGED <<envVars, lastSaved, loaded, made, cipherVars, procs>>

GitignoreNext ==
  \/ CreateGitignore
  \/ AddToGitignore
  \/ RemoveGitignore

SpecGitignore == GitignoreInit /\ [][GitignoreNext]_vars

\* ----------------------------------------------------- claims on the cipher
\* The ciphertext bytes of a record "iv:ciphertext".
CiphertextOf(record) == Base64Decode(Split(record, Colon)[2])
IvOf(record) == Base64Decode(Split(record, Colon)[1])

\* PKCS#7: the bytes end in n bytes of value n, for some n in 1..BlockLen.
Pkcs7Valid(plain) ==
  /\ Len(plain) > 0
  /\ \E n \in 1..BlockLen :
       n <= Len(plain) /\ Drop(plain, Len(plain) - n) = Repeat(n, n)

\* The last two blocks of a and b (the whole of them, if shorter) are the same.
SameTail(a, b) ==
  /\ Len(a) = Len(b)
  /\ LET k == IF Len(a) > 2 * BlockLen THEN Len(a) - (2 * BlockLen) ELSE 0
     IN Drop(a, k) = Drop(b, k)

\* C1: decrypt, given a record encrypt returned and the key it was made with,
\* returns exactly the text that was encrypted (the empty text included).
RoundTrip ==
  result.op = "decrypt" => result.out.err = "none" /\ result.out.text = text

\* A text of several blocks with a character of more than one byte came back.
RoundTripWitness ==
  /\ result.op = "decrypt"
  /\ result.out.text = text
  /\ Len(Utf8Encode(text)) > BlockLen
  /\ \E i \in 1..Len(text) : text[i] > 127

\* C2: two successive calls of encrypt with one text and one key return
\* different records, and decrypt turns each of them back into the text.
FreshRecords ==
  Len(records) = 2 =>
    /\ records[1] # records[2]
    /\ \A i \in 1..2 :
         LET back == decrypt(records[i], masterKey)
         IN back.err = "none" /\ back.text = text

FreshRecordsWitness ==
  Len(records) = 2 /\ records[1] # records[2] /\ text # <<>>

\* C3 as stated: a record with a changed ciphertext character is always
\* refused with DecryptionError.
TamperDetected == result.op = "tamper" => result.out.err = "DecryptionError"

\* C3 amended: a changed ciphertext character never makes the record malformed,
\* and a change that leaves the last two ciphertext blocks as they were is not
\* detected: decrypt returns a string.
TamperPartlyDetected ==
  result.op = "tamper" =>
    /\ result.out.err \in {"none", "DecryptionError"}
    /\ SameTail(CiphertextOf(records[1]), CiphertextOf(result.input))
         => result.out.err = "none"

\* A changed record was decrypted, without an error, to another text.
TamperWitness ==
  /\ result.op = "tamper"
  /\ CiphertextOf(records[1]) # CiphertextOf(result.input)
  /\ result.out.err = "none"
  /\ result.out.text # text

NoColonMalformed ==
  result.op = "malformed" =>
    /\ result.out.err = "MalformedRecordError"
    /\ \A i \in 1..Len(result.out.calls) :
         result.out.calls[i] \notin {"scryptSync", "createDecipheriv", "update", "final"}

NoColonWitness ==
  /\ result.op = "malformed"
  /\ result.input # <<>>
  /\ IndexOf(result.input, Colon) = 0
  /\ result.out.err = "MalformedRecordError"

\* C15 as stated: loadMasterKey returns the bytes of the key file without
\* validating their length, and a master key of another length than 32 bytes
\* (here KeyLen) makes the following encrypt or decrypt fail instead of
\* producing a record or a plaintext.
KeyLengthRejected ==
  /\ call.op = "loadMasterKey" =>
       (call.out.err = "none" /\ call.out.value = fs[MASTER_KEY_FILENAME].data)
  /\ Len(masterKey) # KeyLen =>
       /\ records = <<>>
       /\ result.op = "decrypt" => result.out.err # "none"

\* C15 amended: loadMasterKey returns the bytes of the key file without
\* validating their length, and encrypt and decrypt take a master key of any
\* length, the empty one included: scryptSync derives the cipher's key from it,
\* encrypt returns a record "iv:ciphertext" and decrypt of it under the same
\* key returns the text.
KeyLengthAccepted ==
  /\ call.op = "loadMasterKey" =>
       (call.out.err = "none" /\ call.out.value = fs[MASTER_KEY_FILENAME].data)
  /\ \A i \in 1..Len(records) :
       /\ Len(Split(records[i], Colon)) = 2
       /\ Len(IvOf(records[i])) = BlockLen
       /\ decrypt(records[i], masterKey).err = "none"
  /\ result.op = "decrypt" =>
       (result.key = masterKey /\ result.out.err = "none" /\ result.out.text = text)

\* A text was encrypted and decrypted under a key file of another length than
\* generateMasterKey's.
KeyLengthWitness ==
  /\ Len(masterKey) # KeyLen
  /\ call.op = "loadMasterKey" /\ call.out.value = masterKey
  /\ records # <<>>
  /\ result.op = "decrypt" /\ result.out.err = "none"
  /\ result.out.text = text /\ Len(text) = MaxLen

\* A valid base64 string: groups of four characters of the alphabet, the last
\* group ending in at most two "=".
ValidBase64(s) ==
  /\ s # <<>>
  /\ Len(s) % 4 = 0
  /\ \A i \in 1..Len(s) :
       \/ IsB64Digit(s[i])
       \/ /\ s[i] = PadChar
          /\ i >= Len(s) - 1
          /\ s[Len(s)] = PadChar

\* Exactly one colon, between two valid base64 parts.
WellFramed(record) ==
  LET parts == Split(record, Colon)
  IN Len(parts) = 2 /\ ValidBase64(parts[1]) /\ ValidBase64(parts[2])

\* C16: decrypt returns a string only for a record with exactly one colon
\* between two valid base64 parts; for a record with an empty part, with more
\* than one colon or with a part that is no valid base64 it fails with
\* MalformedRecordError.
RecordFraming ==
  result.op # "none" =>
    /\ result.out.err = "none" => WellFramed(result.input)
    /\ ~WellFramed(result.input) => result.out.err = "MalformedRecordError"

\* ------------------------------------------------ claims on the file functions
\* C6: loadMasterKey returns the bytes given to the most recent saveMasterKey
\* on the path, however many keys were saved and loaded before: the file is
\* read at every call.
KeyPersistence ==
  (call.op = "loadMasterKey" /\ call.saved # <<>>) =>
    (call.out.err = "none" /\ call.out.value = call.saved)

\* A key was loaded, another key saved over it, and the load returned the new
\* one.
KeyPersistenceWitness ==
  /\ call.op = "loadMasterKey"
  /\ loaded # <<>>
  /\ call.saved # loaded
  /\ call.out.value = call.saved
  /\ Len(call.out.value) = KeyLen

\* C7: encryptEnvFile followed by decryptEnvFile under the key the file was
\* encrypted with leaves the output with exactly the content of the input, and
\* neither call changes the input file or the key file.
FileRoundTrip ==
  /\ (call.op = "decryptEnvFile" /\ call.made.valid
        /\ call.pre[MASTER_KEY_FILENAME] = File(call.made.key)) =>
       /\ call.out.err = "none"
       /\ call.out.files[DecryptedPath] = File(call.made.content)
  /\ call.op \in {"encryptEnvFile", "decryptEnvFile"} =>
       /\ call.out.files[call.input] = call.pre[call.input]
       /\ call.out.files[MASTER_KEY_FILENAME] = call.pre[MASTER_KEY_FILENAME]
       /\ call.out.files[EnvPath] = call.pre[EnvPath]

\* A content with a character of two bytes and its trailing newline came back.
FileRoundTripWitness ==
  /\ call.op = "decryptEnvFile"
  /\ call.made.valid
  /\ call.out.err = "none"
  /\ fs[DecryptedPath] = File(call.made.content)
  /\ call.made.content[Len(call.made.content)] = 10
  /\ \E i \in 1..Len(call.made.content) : call.made.content[i] > 127

\* C8 as stated: loadMasterKey fails with KeyNotFoundError on a missing key
\* file, and encryptEnvFile and decryptEnvFile fail with FileNotFoundError
\* whenever the input file or the key file is missing.
MissingIsFileNotFound ==
  /\ (call.op = "loadMasterKey" /\ ~call.pre[MASTER_KEY_FILENAME].exists) =>
       call.out.err = "KeyNotFoundError"
  /\ (call.op \in {"encryptEnvFile", "decryptEnvFile"}
        /\ (~call.pre[call.input].exists \/ ~call.pre[MASTER_KEY_FILENAME].exists)) =>
       call.out.err = "FileNotFoundError"

\* C8 amended: a missing key file makes all three fail with KeyNotFoundError
\* (the key is loaded first, so also when the input is missing too); a missing
\* input file makes encryptEnvFile and decryptEnvFile fail with
\* FileNotFoundError only when the key file exists.
MissingFileKinds ==
  /\ (call.op \in {"loadMasterKey", "encryptEnvFile", "decryptEnvFile"}
        /\ ~call.pre[MASTER_KEY_FILENAME].exists) =>
       call.out.err = "KeyNotFoundError"
  /\ (call.op \in {"encryptEnvFile", "decryptEnvFile"}
        /\ call.pre[MASTER_KEY_FILENAME].exists /\ ~call.pre[call.input].exists) =>
       call.out.err = "FileNotFoundError"

\* encryptEnvFile was called with neither the key file nor the input file there.
MissingFileWitness ==
  /\ call.op = "encryptEnvFile"
  /\ ~call.pre[MASTER_KEY_FILENAME].exists
  /\ ~call.pre[EnvPath].exists
  /\ call.out.err = "KeyNotFoundError"

\* The calls of encryptEnvFile and decryptEnvFile, and the path each writes to.
FileCalls == {"encryptEnvFile", "decryptEnvFile", "decryptEnvFile of .env"}
OutputOf(c) == IF c.op = "encryptEnvFile" THEN EncPath ELSE DecryptedPath

\* C18: a call of encryptEnvFile or decryptEnvFile that fails (key file
\* missing, input file missing, malformed record, decryption failure) leaves
\* the output file, and every other file, exactly as it was; a call that
\* succeeds has changed no file but its output.
FailureLeavesOutput ==
  call.op \in FileCalls =>
    IF call.out.err # "none"
      THEN /\ call.out.files = call.pre
           /\ fs[OutputOf(call)] = call.pre[OutputOf(call)]
    ELSE \A p \in Paths \ {OutputOf(call)} : call.out.files[p] = call.pre[p]

\* A decryption under another key than the file's failed, and the output of an
\* earlier decryption is still there as it was.
FailureWitness ==
  /\ call.op = "decryptEnvFile"
  /\ call.out.err = "DecryptionError"
  /\ call.pre[DecryptedPath].exists
  /\ call.pre[DecryptedPath].data # <<>>
  /\ fs[DecryptedPath] = call.pre[DecryptedPath]

\* decryptEnvFile was called by the last withSuperEnv.
Decrypting == call.out.value \in {"decrypted", "failed"}

\* C14: with skipIfOutputExists true (the default) and the output file .env
\* there, withSuperEnv calls no decryption and leaves every file as it was; it
\* decrypts exactly when the encrypted file and the key file both exist and
\* the output is absent or skipIfOutputExists is false, and a decryption that
\* succeeds leaves in the output the text the encrypted file was made of.
SkipRule ==
  call.op = "withSuperEnv" =>
    /\ call.out.err = "none"
    /\ (MergedSkip(call.input) /\ existsSync(call.pre, EnvPath)) =>
         (~Decrypting /\ call.out.files = call.pre)
    /\ Decrypting <=>
         /\ existsSync(call.pre, EncPath)
         /\ existsSync(call.pre, MASTER_KEY_FILENAME)
         /\ ~existsSync(call.pre, EnvPath) \/ ~MergedSkip(call.input)
    /\ ~Decrypting => call.out.files = call.pre
    /\ (call.out.value = "decrypted" /\ call.made.valid
          /\ call.pre[MASTER_KEY_FILENAME] = File(call.made.key)) =>
         call.out.files[EnvPath] = File(call.made.content)

\* The encrypted file, its key and an output of another content were there,
\* the option was not set, and the output was left as it was.
SkipWitness ==
  /\ call.op = "withSuperEnv"
  /\ call.input = "unset"
  /\ call.out.value = "skipped"
  /\ call.made.valid
  /\ call.pre[MASTER_KEY_FILENAME] = File(call.made.key)
  /\ call.pre[EnvPath].exists
  /\ call.pre[EnvPath].data # call.made.content
  /\ fs[EnvPath] = call.pre[EnvPath]

\* ------------------------------------------------- claims on the command line
\* C9: in every finished run of init, encrypt, decrypt or edit, an error that
\* was raised was caught, reported with the message of a catch block and ended
\* the process with exit code 1, and a run without an error ended with 0.
ExitDiscipline ==
  \A p \in Procs :
    procs[p].pc = "done" =>
      IF procs[p].raised
        THEN procs[p].caught /\ procs[p].report = "message" /\ procs[p].exit = 1
      ELSE procs[p].exit = 0

\* Both runs were edit sessions and ended with exit code 0.
BothEdited ==
  \A p \in Procs :
    procs[p].cmd = "edit" /\ procs[p].pc = "done" /\ procs[p].exit = 0

\* The text the encrypted file decrypts to under the key file.
EncryptedText ==
  decrypt(Utf8Decode(fs[EncPath].data), fs[MASTER_KEY_FILENAME].data).text

\* C10: edit sessions take no lock and work on the one file .env.tmp: when two
\* sessions have ended without an error, the encrypted file holds what .env.tmp
\* held when the later of the two re-encryptions ran, whichever session wrote
\* it, and not what the other session saved.
LastReencryptWins ==
  BothEdited =>
    /\ call.op = "encryptEnvFile"
    /\ call.input = TempPath
    /\ call.out.err = "none"
    /\ fs[EncPath] = call.out.files[EncPath]
    /\ Utf8Encode(EncryptedText) = call.pre[TempPath].data

\* Two sessions that were open at the same time both saved a change and ended
\* with exit code 0 and nothing reported, and the encrypted file lacks the
\* change of one of them.
LostUpdate ==
  /\ BothEdited
  /\ \E p \in Procs : procs[p].raced
  /\ \A p \in Procs : procs[p].edited /\ ~procs[p].raised /\ procs[p].report = "none"
  /\ \E p \in Procs :
       \A i \in 1..Len(EncryptedText) : <<EncryptedText[i]>> # Mark(p)

\* The positions of an edit session, each with the positions that may follow
\* it: decrypted and editor started, editor running, editor exited,
\* re-encrypted, ended.
EditOrder ==
  {<<"idle", "spawned">>, <<"idle", "done">>, <<"spawned", "editing">>,
   <<"spawned", "exited">>, <<"editing", "exited">>, <<"exited", "unlink">>,
   <<"exited", "done">>, <<"unlink", "done">>}

\* No other run of the command line is or was an edit session.
SingleSession(p) == \A q \in Procs \ {p} : procs[q].cmd # "edit"

\* C11: the steps of an edit session follow the order decrypt to .env.tmp and
\* start of the editor, exit of the editor, re-encryption; no step of the
\* session changes the encrypted file before the editor has exited; and in a
\* single session the step after the editor's exit, whatever the exit code,
\* rewrites it to a record that decrypts to what .env.tmp held at that exit.
EditOrdering ==
  [][\A p \in Procs :
       (procs'[p] # procs[p] /\ procs'[p].cmd = "edit") =>
         /\ procs'[p].pc # procs[p].pc => <<procs[p].pc, procs'[p].pc>> \in EditOrder
         /\ fs'[EncPath] # fs[EncPath] => procs[p].pc = "exited"
         /\ (procs[p].pc = "exited" /\ SingleSession(p)) =>
              /\ procs'[p].pc = "unlink"
              /\ call'.op = "encryptEnvFile" /\ call'.input = TempPath
              /\ call'.out.err = "none"
              /\ procs[p].atExit.exists
              /\ LET decrypted == decrypt(Utf8Decode(fs'[EncPath].data),
                                          fs'[MASTER_KEY_FILENAME].data)
                 IN /\ decrypted.err = "none"
                    /\ Utf8Encode(decrypted.text) = procs[p].atExit.data]_vars

\* A single session whose editor saved a change and exited with code 1 has
\* re-encrypted the file, which now holds the change.
EditOrderingWitness ==
  \E p \in Procs :
    /\ SingleSession(p)
    /\ procs[p].cmd = "edit" /\ procs[p].pc = "unlink"
    /\ procs[p].edited /\ procs[p].code = 1
    /\ call.op = "encryptEnvFile" /\ call.input = TempPath
    /\ Utf8Encode(EncryptedText) = procs[p].atExit.data
    /\ procs[p].atExit.data # Utf8Encode(InitialEnv)

\* C19: once the editor of an edit session whose decryption to .env.tmp
\* succeeded has exited, .env.tmp is eventually deleted, also when the
\* re-encryption fails.
TempFileRemoved ==
  (procs[Session].cmd = "edit" /\ procs[Session].pc = "exited")
    ~> ~existsSync(fs, TempPath)

\* ------------------------------------------------------ claims on .gitignore
\* C13: createGitignoreIfNotExists returns true if and only if .gitignore did
\* not exist before the call, and false whenever it existed, whether or not
\* entries were appended to it.
CreatedIffAbsent ==
  call.op = "createGitignoreIfNotExists" =>
    (call.out.value <=> ~existsSync(call.pre, GitignorePath))

\* ------------------------------------------- claims on createEnv and Env
\* What the schema of the instance makes of process.env as the last call left
\* it (the variables of the .env file loaded into it).
Validation == SafeParse(instance.schema, envCall.out.env)

\* C12: when the environment satisfies the schema createEnv returns the
\* schema's parsed values; when it does not, createEnv throws "Environment
\* variables validation failed" if throwOnValidationFailure is true (the
\* default) and returns an empty object if it is false, never the fields that
\* did validate.
CreateEnvOutcome ==
  envCall.op = "createEnv" =>
    IF Validation.success
      THEN envCall.out.err = "none" /\ envCall.out.data = Validation.data
    ELSE IF instance.options.throwOnValidationFailure \in {"unset", "true"}
      THEN envCall.out.err = "Environment variables validation failed"
    ELSE envCall.out.err = "none" /\ envCall.out.data = EmptyObject

\* A validation failed with one field of the schema valid, nothing was
\* thrown, and the empty object came back.
CreateEnvWitness ==
  /\ envCall.op = "createEnv"
  /\ instance.options.throwOnValidationFailure = "false"
  /\ ~Validation.success
  /\ Validation.data # EmptyObject
  /\ envCall.out.data = EmptyObject

\* C17: after the first get() of an Env instance that returned, every later
\* get(), getValue() and getClientEnv() runs no validation, leaves process.env
\* as it is and works on the value that first get() returned.
CachedOnce ==
  (envCall.op \in {"get", "getValue", "getClientEnv"} /\ envCall.again) =>
    /\ ~envCall.validated
    /\ envCall.out.env = envCall.env
    /\ instance.cachedEnv = instance.first
    /\ envCall.op = "get" => envCall.out = EnvReturned(instance.first, envCall.env)

====
